---- MODULE Spec2Model ----
(***************************************************************************)
(* Model of the pivot overlay handler of the Select tool                   *)
(* (editor/src/messages/tool/common_functionality/pivot.rs).               *)
(*                                                                         *)
(* f64 values are modelled as exact rationals n/d in lowest terms, with    *)
(* the three non-finite values of IEEE-754 kept apart: d = 0 and n = 0 is  *)
(* NaN, d = 0 and n = 1 is +infinity, d = 0 and n = -1 is -infinity.       *)
(***************************************************************************)
EXTENDS Integers, Sequences, FiniteSets, TLC

----------------------------------------------------------------------------
(* f64 arithmetic *)

Abs(i) == IF i < 0 THEN -i ELSE i

Sign(i) == IF i < 0 THEN -1 ELSE IF i > 0 THEN 1 ELSE 0

RECURSIVE Gcd(_, _)
Gcd(a, b) == IF b = 0 THEN a ELSE Gcd(b, a % b)

NaN == [n |-> 0, d |-> 0]

Inf(s) == [n |-> s, d |-> 0]

IsNaN(r) == r.d = 0 /\ r.n = 0

IsInf(r) == r.d = 0 /\ r.n # 0

IsFinite(r) == r.d > 0

\* n/d with both divided by g, the sign carried by the numerator.
Reduce(n, d, g) ==
    IF d < 0 THEN [n |-> (-n) \div g, d |-> (-d) \div g]
    ELSE [n |-> n \div g, d |-> d \div g]

\* The finite value n/d (d # 0) in lowest terms with a positive denominator.
Norm(n, d) == Reduce(n, d, Gcd(Abs(n), Abs(d)))

R(n, d) == Norm(n, d)

Zero == [n |-> 0, d |-> 1]

One == [n |-> 1, d |-> 1]

Half == [n |-> 1, d |-> 2]

RNeg(a) == [n |-> -a.n, d |-> a.d]

RAbs(a) == [n |-> Abs(a.n), d |-> a.d]

RAdd(a, b) ==
    IF IsNaN(a) \/ IsNaN(b) THEN NaN
    ELSE IF IsInf(a) /\ IsInf(b) THEN (IF a.n = b.n THEN a ELSE NaN)
    ELSE IF IsInf(a) THEN a
    ELSE IF IsInf(b) THEN b
    ELSE Norm(a.n * b.d + b.n * a.d, a.d * b.d)

RSub(a, b) == RAdd(a, RNeg(b))

RMul(a, b) ==
    IF IsNaN(a) \/ IsNaN(b) THEN NaN
    ELSE IF IsInf(a) \/ IsInf(b)
         THEN (IF a.n = 0 \/ b.n = 0 THEN NaN ELSE Inf(Sign(a.n) * Sign(b.n)))
    ELSE Norm(a.n * b.n, a.d * b.d)

RDiv(a, b) ==
    IF IsNaN(a) \/ IsNaN(b) THEN NaN
    ELSE IF IsInf(a) THEN (IF IsInf(b) THEN NaN
                           ELSE Inf(a.n * (IF b.n < 0 THEN -1 ELSE 1)))
    ELSE IF IsInf(b) THEN Zero
    ELSE IF b.n = 0 THEN (IF a.n = 0 THEN NaN ELSE Inf(Sign(a.n)))
    ELSE Norm(a.n * b.d, a.d * b.n)

\* a < b as f64 compares: false as soon as one side is NaN.
RLt(a, b) ==
    /\ ~IsNaN(a)
    /\ ~IsNaN(b)
    /\ IF IsInf(a) /\ IsInf(b) THEN a.n < b.n
       ELSE IF IsInf(a) THEN a.n < 0
       ELSE IF IsInf(b) THEN b.n > 0
       ELSE a.n * b.d < b.n * a.d

\* a == b as f64 compares: NaN equals nothing, itself included.
REq(a, b) == ~IsNaN(a) /\ ~IsNaN(b) /\ a = b

RLe(a, b) == RLt(a, b) \/ REq(a, b)

RMin(a, b) == IF RLt(b, a) THEN b ELSE a

RMax(a, b) == IF RLt(a, b) THEN b ELSE a

----------------------------------------------------------------------------
(* glam::DVec2 and glam::DAffine2 *)

V(x, y) == [x |-> x, y |-> y]

\* DVec2 from two integers.
VI(x, y) == V(R(x, 1), R(y, 1))

Splat(r) == V(r, r)

VZero == Splat(Zero)

VOne == Splat(One)

VAdd(p, q) == V(RAdd(p.x, q.x), RAdd(p.y, q.y))

VSub(p, q) == V(RSub(p.x, q.x), RSub(p.y, q.y))

\* Component-wise quotient of two vectors.
VDiv(p, q) == V(RDiv(p.x, q.x), RDiv(p.y, q.y))

\* A vector divided by a scalar.
VDivScalar(p, r) == V(RDiv(p.x, r), RDiv(p.y, r))

VMin(p, q) == V(RMin(p.x, q.x), RMin(p.y, q.y))

VMax(p, q) == V(RMax(p.x, q.x), RMax(p.y, q.y))

DistanceSquared(p, q) ==
    LET dx == RSub(p.x, q.x)
        dy == RSub(p.y, q.y)
    IN RAdd(RMul(dx, dx), RMul(dy, dy))

\* The affine map p |-> (xx*p.x + yx*p.y + tx, xy*p.x + yy*p.y + ty):
\* (xx, xy) is the matrix's x axis, (yx, yy) its y axis, (tx, ty) the translation.
Affine(xx, xy, yx, yy, tx, ty) ==
    [xx |-> xx, xy |-> xy, yx |-> yx, yy |-> yy, tx |-> tx, ty |-> ty]

IDENTITY == Affine(One, Zero, Zero, One, Zero, Zero)

FromTranslation(t) == Affine(One, Zero, Zero, One, t.x, t.y)

FromScale(s) == Affine(s.x, Zero, Zero, s.y, Zero, Zero)

TransformPoint2(m, p) ==
    V(RAdd(RAdd(RMul(m.xx, p.x), RMul(m.yx, p.y)), m.tx),
      RAdd(RAdd(RMul(m.xy, p.x), RMul(m.yy, p.y)), m.ty))

\* The linear part applied to a vector (no translation).
TransformVector2(m, p) ==
    V(RAdd(RMul(m.xx, p.x), RMul(m.yx, p.y)),
      RAdd(RMul(m.xy, p.x), RMul(m.yy, p.y)))

\* The affine map with the matrix columns x_axis and y_axis and the translation t.
FromCols(x_axis, y_axis, t) == Affine(x_axis.x, x_axis.y, y_axis.x, y_axis.y, t.x, t.y)

\* a * b: the map that applies b first, then a.
AffineMul(a, b) ==
    FromCols(TransformVector2(a, V(b.xx, b.xy)),
             TransformVector2(a, V(b.yx, b.yy)),
             TransformPoint2(a, V(b.tx, b.ty)))

Determinant(m) == RSub(RMul(m.xx, m.yy), RMul(m.yx, m.xy))

\* DMat2::inverse, given 1 / determinant: the linear map, no translation.
Mat2Inverse(m, inv_det) ==
    Affine(RMul(m.yy, inv_det), RMul(RNeg(m.xy), inv_det),
           RMul(RNeg(m.yx), inv_det), RMul(m.xx, inv_det), Zero, Zero)

\* The affine map with the linear part of lin and the translation -t.
WithTranslationNeg(lin, t) ==
    Affine(lin.xx, lin.xy, lin.yx, lin.yy, RNeg(t.x), RNeg(t.y))

\* The inverse of m, given the inverse of its linear part.
InverseFrom(m, lin) == WithTranslationNeg(lin, TransformVector2(lin, V(m.tx, m.ty)))

AffineInverse(m) == InverseFrom(m, Mat2Inverse(m, RDiv(One, Determinant(m))))

----------------------------------------------------------------------------
(* Bounds and inputs *)

\* The longest selection the document holds.
MaxSelected == 2

\* crate::consts::PIVOT_DIAMETER
PIVOT_DIAMETER == 5

\* f64::EPSILON is 2^-EPSILON_EXPONENT.
EPSILON_EXPONENT == 52

\* The tolerance of the DVec2 -> ReferencePoint conversion is 1/TOLERANCE_INVERSE.
TOLERANCE_INVERSE == 100000

None == << >>

Some(v) == << v >>

IsSome(o) == Len(o) = 1

Unwrap(o) == o[1]

UnwrapOr(o, default) == IF IsSome(o) THEN o[1] ELSE default

\* The layers of the document: what the document's metadata and network
\* interface answer for each of them.
LayerTable ==
    [ A |-> [visible |-> TRUE, locked |-> FALSE,
             bounds |-> << VI(0, 0), VI(10, 10) >>,
             transform |-> IDENTITY,
             pivot |-> None],
      P |-> [visible |-> TRUE, locked |-> FALSE,
             bounds |-> << VI(0, 0), VI(10, 10) >>,
             transform |-> IDENTITY,
             pivot |-> Some(V(R(1, 4), R(3, 4)))],
      B |-> [visible |-> TRUE, locked |-> FALSE,
             bounds |-> << VI(1, 1), VI(5, 3) >>,
             transform |-> Affine(Zero, R(2, 1), R(-2, 1), Zero, R(20, 1), Zero),
             pivot |-> Some(VZero)],
      S |-> [visible |-> TRUE, locked |-> FALSE,
             bounds |-> << VI(0, 0), VI(10, 10) >>,
             transform |-> FromScale(V(Zero, One)),
             pivot |-> None],
      H |-> [visible |-> FALSE, locked |-> FALSE,
             bounds |-> << VI(0, 0), VI(10, 10) >>,
             transform |-> IDENTITY,
             pivot |-> None] ]

LayerNodeIdentifier == DOMAIN LayerTable

\* Sequences of layers, at most k long.
RECURSIVE SeqsUpTo(_)
SeqsUpTo(k) ==
    IF k = 0 THEN { << >> }
    ELSE LET shorter == SeqsUpTo(k - 1)
         IN shorter \cup { Append(s, l) : s \in shorter, l \in LayerNodeIdentifier }

\* The selections the document can hold: no layer is selected twice.
Selections == { s \in SeqsUpTo(MaxSelected) :
                  \A i, j \in 1..Len(s) : i # j => s[i] # s[j] }

\* The pointer positions and pivot positions the tools pass in.
MousePositions == { VI(7, 5), V(R(13, 2), R(7, 1)), VI(20, 20) }

ViewportPositions == { V(R(5, 2), R(15, 2)), VI(16, 6) }

NormalizedPositions == { Splat(Half), VZero }

\* draw_data: Option<(f64,)>
DrawData == { None, Some(R(3, 1)) }

----------------------------------------------------------------------------
(* The document and the collaborators of the handler *)

VARIABLES
    selected_nodes,             \* document: the selected layers, in enumeration order
    pivots,                     \* document: the pivot each layer's transform holds, if any
    normalized_pivot,           \* Pivot.normalized_pivot
    transform_from_normalized,  \* Pivot.transform_from_normalized
    pivot,                      \* Pivot.pivot: Option<DVec2>
    old_pivot_position,         \* Pivot.old_pivot_position
    active,                     \* Pivot.active
    op,                         \* the operation called last
    visibility,                 \* the visibility setting the last update_pivot read
    draw_data,                  \* the draw_data argument of the last update_pivot
    position,                   \* the DVec2 argument of the last call
    ret,                        \* the bool the last call returned
    ret_position,               \* the ReferencePoint the last to_pivot_position returned
    responses,                  \* the message queue handed to the last call
    overlay_context             \* the pivot draws in the overlay context of the last call

pivot_vars ==
    << normalized_pivot, transform_from_normalized, pivot, old_pivot_position, active >>

call_vars ==
    << op, visibility, draw_data, position, ret, ret_position, responses, overlay_context >>

document_vars == << selected_nodes, pivots >>

vars == << document_vars, pivot_vars, call_vars >>

\* The handler as a value: the fields of self.
Self ==
    [normalized_pivot |-> normalized_pivot,
     transform_from_normalized |-> transform_from_normalized,
     pivot |-> pivot,
     old_pivot_position |-> old_pivot_position,
     active |-> active]

\* selected_nodes().selected_visible_and_unlocked_layers(..), in enumeration order.
SelectedVisibleAndUnlockedLayers(selection) ==
    SelectSeq(selection, LAMBDA l : LayerTable[l].visible /\ ~LayerTable[l].locked)

\* document.metadata().nonzero_bounding_box(layer): [min, max] in the layer's space.
NonzeroBoundingBox(layer) == LayerTable[layer].bounds

\* document.metadata().transform_to_viewport(layer)
TransformToViewport(layer) == LayerTable[layer].transform

\* graph_modification_utils::get_pivot(layer, ..): Option<DVec2>
GetPivot(layer) == pivots[layer]

\* |r| <= f64::EPSILON, for r = n/d: |n| * 2^52 <= d, that is |n| <= d div 2^52.
\* (2^52 is taken off the denominator in two halves of 2^26.)
LeEpsilon(r) ==
    LET half == 2 ^ (EPSILON_EXPONENT \div 2)
        rest == 2 ^ (EPSILON_EXPONENT - (EPSILON_EXPONENT \div 2))
    IN /\ IsFinite(r)
       /\ Abs(r.n) <= ((r.d \div half) \div rest)

\* r.abs() < TOLERANCE
WithinTolerance(r) == RLt(RAbs(r), R(1, TOLERANCE_INVERSE))

\* impl From<DVec2> for ReferencePoint
ToReferencePoint(input) ==
    LET Column(left, center, right) ==
            IF WithinTolerance(input.x) THEN left
            ELSE IF WithinTolerance(RSub(input.x, Half)) THEN center
            ELSE IF WithinTolerance(RSub(input.x, One)) THEN right
            ELSE "None"
    IN IF WithinTolerance(input.y)
         THEN Column("TopLeft", "TopCenter", "TopRight")
       ELSE IF WithinTolerance(RSub(input.y, Half))
         THEN Column("CenterLeft", "Center", "CenterRight")
       ELSE IF WithinTolerance(RSub(input.y, One))
         THEN Column("BottomLeft", "BottomCenter", "BottomRight")
       ELSE "None"

\* The viewport-space axis-aligned box of one layer: the box of its four
\* transformed corners.
BoxOfCorners(c1, c2, c3, c4) ==
    << VMin(VMin(c1, c2), VMin(c3, c4)), VMax(VMax(c1, c2), VMax(c3, c4)) >>

\* The box [min, max] under the transform t.
BoxUnder(t, min, max) ==
    BoxOfCorners(TransformPoint2(t, min), TransformPoint2(t, V(max.x, min.y)),
                 TransformPoint2(t, max), TransformPoint2(t, V(min.x, max.y)))

BoundingBoxViewport(layer) ==
    BoxUnder(TransformToViewport(layer),
             NonzeroBoundingBox(layer)[1], NonzeroBoundingBox(layer)[2])

\* BoundingBoxViewport of every layer of the document, computed once.
ViewportBoxes == [l \in LayerNodeIdentifier |-> BoundingBoxViewport(l)]

\* Quad::combine_bounds
CombineBounds(a, b) == << VMin(a[1], b[1]), VMax(a[2], b[2]) >>

RECURSIVE CombineAll(_, _)
CombineAll(acc, layers) ==
    IF layers = << >> THEN acc
    ELSE CombineAll(CombineBounds(acc, ViewportBoxes[Head(layers)]), Tail(layers))

\* document.selected_visible_and_unlock_layers_bounding_box_viewport(): Option<[DVec2; 2]>
SelectedVisibleAndUnlockLayersBoundingBoxViewport(selection) ==
    LET layers == SelectedVisibleAndUnlockedLayers(selection)
    IN IF layers = << >> THEN None
       ELSE Some(CombineAll(ViewportBoxes[Head(layers)], Tail(layers)))

----------------------------------------------------------------------------
(* impl Pivot *)

\* impl Default for Pivot
Default ==
    [normalized_pivot |-> Splat(Half),
     transform_from_normalized |-> IDENTITY,
     pivot |-> None,
     old_pivot_position |-> "Center",
     active |-> TRUE]

\* DAffine2::from_translation(min) * DAffine2::from_scale(max - min)
BoundsTransform(min, max) == AffineMul(FromTranslation(min), FromScale(VSub(max, min)))

\* get_layer_pivot_transform with the two factors multiplied the other way round.
GetLayerPivotTransformSwapped(layer) ==
    AffineMul(BoundsTransform(NonzeroBoundingBox(layer)[1], NonzeroBoundingBox(layer)[2]),
              TransformToViewport(layer))

\* Pivot::get_layer_pivot_transform
GetLayerPivotTransform(layer) ==
    AffineMul(TransformToViewport(layer),
              BoundsTransform(NonzeroBoundingBox(layer)[1], NonzeroBoundingBox(layer)[2]))

\* GetLayerPivotTransform of every layer of the document, computed once.
LayerPivotTransforms == [l \in LayerNodeIdentifier |-> GetLayerPivotTransform(l)]

\* graph_modification_utils::get_viewport_pivot(layer, ..): the layer's own
\* pivot point in viewport space.
GetViewportPivot(layer) ==
    TransformPoint2(LayerPivotTransforms[layer], UnwrapOr(GetPivot(layer), Splat(Half)))

\* .map(get_viewport_pivot).reduce(|a, b| a + b): None on an empty sequence.
RECURSIVE SumFrom(_, _)
SumFrom(acc, layers) ==
    IF layers = << >> THEN acc
    ELSE SumFrom(VAdd(acc, GetViewportPivot(Head(layers))), Tail(layers))

ReducePivots(layers) ==
    IF layers = << >> THEN None
    ELSE Some(SumFrom(GetViewportPivot(Head(layers)), Tail(layers)))

\* RecalculateNone that forgets to clear the cached viewport pivot.
RecalculateNoneKeepsPivot(self) ==
    [self EXCEPT !.normalized_pivot = Splat(Half)]

\* RecalculateNone that forgets to re-centre the normalized pivot.
RecalculateNoneKeepsNormalized(self) ==
    [self EXCEPT !.pivot = None]

\* RecalculateNone that reverts the cached transform to its default as well.
RecalculateNoneResetsTransform(self) ==
    [self EXCEPT !.normalized_pivot = Splat(Half),
                 !.transform_from_normalized = IDENTITY,
                 !.pivot = None]

\* Pivot::recalculate_pivot with no layer selected: things revert to default.
RecalculateNone(self) ==
    [self EXCEPT !.normalized_pivot = Splat(Half), !.pivot = None]

\* Pivot::recalculate_pivot with just one layer selected: its inner transform.
\* self with the normalized pivot and the transform of the only layer selected.
StoreOne(self, normalized, transform) ==
    [self EXCEPT !.normalized_pivot = normalized,
                 !.transform_from_normalized = transform,
                 !.pivot = Some(TransformPoint2(transform, normalized))]

\* RecalculateOne that falls back on the normalized pivot it holds when the
\* layer has no pivot of its own.
RecalculateOneKeepsNormalized(self, first) ==
    StoreOne(self, UnwrapOr(GetPivot(first), self.normalized_pivot), LayerPivotTransforms[first])

RecalculateOne(self, first) ==
    StoreOne(self, UnwrapOr(GetPivot(first), Splat(Half)), LayerPivotTransforms[first])

\* StoreMany that does not divide by the size of the box.
StoreManyUnscaled(self, p, min, max) ==
    [self EXCEPT !.pivot = Some(p),
                 !.normalized_pivot = VSub(p, min),
                 !.transform_from_normalized =
                     AffineMul(FromTranslation(min), FromScale(VSub(max, min)))]

\* Pivot::recalculate_pivot with more than one layer selected: the AABB with
\* the mean of the pivots.
\* self with the mean p of the pivots and the viewport box [min, max] of the layers.
StoreMany(self, p, min, max) ==
    [self EXCEPT !.pivot = Some(p),
                 !.normalized_pivot = VDiv(VSub(p, min), VSub(max, min)),
                 !.transform_from_normalized =
                     AffineMul(FromTranslation(min), FromScale(VSub(max, min)))]

\* The rest of the branch once the mean p of the pivots is known.
StoreManyInBox(self, p, box) == StoreMany(self, p, box[1], box[2])

RecalculateMany(self, selection, selected_layers_count) ==
    StoreManyInBox(
        self,
        VDivScalar(UnwrapOr(ReducePivots(SelectedVisibleAndUnlockedLayers(selection)), VZero),
                   R(selected_layers_count, 1)),
        UnwrapOr(SelectedVisibleAndUnlockLayersBoundingBoxViewport(selection),
                 << VZero, VOne >>))

\* recalculate_pivot that does not count the layer layers.next() consumed.
RecalculatePivotMiscounted(self, selection) ==
    LET layers == SelectedVisibleAndUnlockedLayers(selection)
        selected_layers_count == Len(Tail(layers))
    IN IF ~self.active THEN self
       ELSE IF layers = << >> THEN RecalculateNone(self)
       ELSE IF selected_layers_count = 1 THEN RecalculateOne(self, Head(layers))
       ELSE RecalculateMany(self, selection, selected_layers_count)

\* Pivot::recalculate_pivot: self after the call.
RecalculatePivot(self, selection) ==
    LET layers == SelectedVisibleAndUnlockedLayers(selection)
        \* One is added because the first item is consumed by layers.next().
        selected_layers_count == Len(Tail(layers)) + 1
    IN IF ~self.active THEN self
       ELSE IF layers = << >> THEN RecalculateNone(self)
       ELSE IF selected_layers_count = 1 THEN RecalculateOne(self, Head(layers))
       ELSE RecalculateMany(self, selection, selected_layers_count)

\* Pivot::to_pivot_position
ToPivotPosition(self) == ToReferencePoint(self.normalized_pivot)

\* The message GraphOperationMessage::TransformSetPivot { layer, pivot }.
TransformSetPivot(layer, p) == [layer |-> layer, pivot |-> p]

\* The loop of set_viewport_position mapping the point through each layer's
\* transform instead of its inverse.
RECURSIVE SetViewportPositionLoopForward(_, _, _)
SetViewportPositionLoopForward(layers, point, queue) ==
    IF layers = << >> THEN queue
    ELSE LET layer == Head(layers)
             transform == LayerPivotTransforms[layer]
         IN IF LeEpsilon(RAbs(Determinant(transform))) THEN queue
            ELSE SetViewportPositionLoopForward(
                     Tail(layers), point,
                     Append(queue, TransformSetPivot(
                         layer, TransformPoint2(transform, point))))

\* The loop of set_viewport_position queueing the viewport position itself.
RECURSIVE SetViewportPositionLoopViewport(_, _, _)
SetViewportPositionLoopViewport(layers, point, queue) ==
    IF layers = << >> THEN queue
    ELSE LET layer == Head(layers)
             transform == LayerPivotTransforms[layer]
         IN IF LeEpsilon(RAbs(Determinant(transform))) THEN queue
            ELSE SetViewportPositionLoopViewport(
                     Tail(layers), point, Append(queue, TransformSetPivot(layer, point)))

\* The loop of Pivot::set_viewport_position over the layers still to visit:
\* the queue when the function returns.
RECURSIVE SetViewportPositionLoop(_, _, _)
SetViewportPositionLoop(layers, point, queue) ==
    IF layers = << >> THEN queue
    ELSE LET layer == Head(layers)
             transform == LayerPivotTransforms[layer]
         IN IF LeEpsilon(RAbs(Determinant(transform))) THEN queue
            ELSE SetViewportPositionLoop(
                     Tail(layers), point,
                     Append(queue, TransformSetPivot(
                         layer, TransformPoint2(AffineInverse(transform), point))))

\* Pivot::set_viewport_position: the queue after the call.
SetViewportPositionOf(self, point, selection, queue) ==
    IF ~self.active THEN queue
    ELSE SetViewportPositionLoop(SelectedVisibleAndUnlockedLayers(selection), point, queue)

\* set_normalized_position mapping the point through a transform recalculated
\* from the document instead of the cached one.
SetNormalizedPositionFresh(self, point, selection, queue) ==
    IF ~self.active THEN queue
    ELSE SetViewportPositionOf(
             self,
             TransformPoint2(RecalculatePivot(self, selection).transform_from_normalized, point),
             selection, queue)

\* Pivot::set_normalized_position: the queue after the call.
SetNormalizedPositionOf(self, point, selection, queue) ==
    IF ~self.active THEN queue
    ELSE SetViewportPositionOf(
             self, TransformPoint2(self.transform_from_normalized, point), selection, queue)

\* is_over without its check of self.active.
IsOverIgnoringActive(self, mouse) ==
    /\ IsSome(self.pivot)
    /\ RLt(DistanceSquared(mouse, Unwrap(self.pivot)),
           RMul(R(PIVOT_DIAMETER, 2), R(PIVOT_DIAMETER, 2)))

\* is_over with <= in place of <.
IsOverInclusive(self, mouse) ==
    IF ~self.active THEN FALSE
    ELSE /\ IsSome(self.pivot)
         /\ RLe(DistanceSquared(mouse, Unwrap(self.pivot)),
                RMul(R(PIVOT_DIAMETER, 2), R(PIVOT_DIAMETER, 2)))

\* Pivot::is_over
IsOverOf(self, mouse) ==
    IF ~self.active THEN FALSE
    ELSE /\ IsSome(self.pivot)
         /\ RLt(DistanceSquared(mouse, Unwrap(self.pivot)),
                RMul(R(PIVOT_DIAMETER, 2), R(PIVOT_DIAMETER, 2)))

\* should_refresh_pivot_position that stores the new position before it
\* compares it with the stored one.
ShouldRefreshStoreFirst(self) ==
    IF ~self.active THEN [self |-> self, ret |-> FALSE]
    ELSE [self |-> [self EXCEPT !.old_pivot_position = ToPivotPosition(self)],
          ret |-> FALSE]

\* CompareAndStore that does not store the new position.
CompareWithoutStore(self, new) ==
    [self |-> self, ret |-> new # self.old_pivot_position]

\* The comparison of should_refresh_pivot_position with the position new:
\* new is stored, and whether it differs from the one stored before is returned.
CompareAndStore(self, new) ==
    [self |-> [self EXCEPT !.old_pivot_position = new],
     ret |-> new # self.old_pivot_position]

\* Pivot::should_refresh_pivot_position: self after the call and the bool returned.
ShouldRefreshPivotPositionOf(self) ==
    IF ~self.active THEN [self |-> self, ret |-> FALSE]
    ELSE CompareAndStore(self, ToPivotPosition(self))

\* OverlayContext::pivot(pivot, radius): one circle drawn.
DrawPivot(context, p, radius) == Append(context, [pivot |-> p, radius |-> radius])

\* update_pivot that draws the pivot cached before the recalculation.
UpdatePivotDrawsCached(self, selection, context, pivot_visible, data) ==
    IF ~pivot_visible
      THEN [self |-> [self EXCEPT !.active = FALSE], context |-> context]
    ELSE [self |-> RecalculatePivot([self EXCEPT !.active = TRUE], selection),
          context |-> IF IsSome(self.pivot) /\ IsSome(data)
                        THEN DrawPivot(context, Unwrap(self.pivot), Unwrap(data))
                      ELSE context]

\* update_pivot that does not set active when the setting reads true.
UpdatePivotKeepsInactive(self, selection, context, pivot_visible, data) ==
    IF ~pivot_visible
      THEN [self |-> [self EXCEPT !.active = FALSE], context |-> context]
    ELSE [self |-> RecalculatePivot(self, selection),
          context |-> IF IsSome(RecalculatePivot(self, selection).pivot) /\ IsSome(data)
                        THEN DrawPivot(context, Unwrap(RecalculatePivot(self, selection).pivot),
                                       Unwrap(data))
                      ELSE context]

\* The end of update_pivot, self being recalculated: the pivot is drawn if
\* there is one and draw_data was passed.
DrawIfSome(self, context, data) ==
    [self |-> self,
     context |-> IF IsSome(self.pivot) /\ IsSome(data)
                   THEN DrawPivot(context, Unwrap(self.pivot), Unwrap(data))
                 ELSE context]

\* Pivot::update_pivot: self and the overlay context after the call.
\* pivot_visible is overlay_context.visibility_settings.pivot().
UpdatePivotOf(self, selection, context, pivot_visible, data) ==
    IF ~pivot_visible
      THEN [self |-> [self EXCEPT !.active = FALSE], context |-> context]
    ELSE DrawIfSome(RecalculatePivot([self EXCEPT !.active = TRUE], selection),
                    context, data)

----------------------------------------------------------------------------
(* The state machine: one action per public operation, one for the document *)

Init ==
    /\ selected_nodes = << >>
    /\ pivots = [l \in LayerNodeIdentifier |-> LayerTable[l].pivot]
    /\ normalized_pivot = Default.normalized_pivot
    /\ transform_from_normalized = Default.transform_from_normalized
    /\ pivot = Default.pivot
    /\ old_pivot_position = Default.old_pivot_position
    /\ active = Default.active
    /\ op = "default"
    /\ visibility = TRUE
    /\ draw_data = None
    /\ position = VZero
    /\ ret = FALSE
    /\ ret_position = "None"
    /\ responses = << >>
    /\ overlay_context = << >>

\* self := the handler value after a call.
Store(self) ==
    /\ normalized_pivot' = self.normalized_pivot
    /\ transform_from_normalized' = self.transform_from_normalized
    /\ pivot' = self.pivot
    /\ old_pivot_position' = self.old_pivot_position
    /\ active' = self.active

\* What a call leaves of the previous call's record: nothing.
Record(name, point, returned, queue) ==
    /\ op' = name
    /\ visibility' = TRUE
    /\ draw_data' = None
    /\ position' = point
    /\ ret' = returned
    /\ ret_position' = "None"
    /\ responses' = queue
    /\ overlay_context' = << >>

\* The state after update_pivot(pivot_visible, data) left self and the overlay
\* context as in after.
UpdatePivotTo(after, pivot_visible, data) ==
    /\ Store(after.self)
    /\ op' = "update_pivot"
    /\ visibility' = pivot_visible
    /\ draw_data' = data
    /\ position' = VZero
    /\ ret' = FALSE
    /\ ret_position' = "None"
    /\ responses' = << >>
    /\ overlay_context' = after.context
    /\ UNCHANGED document_vars

UpdatePivot(pivot_visible, data) ==
    UpdatePivotTo(UpdatePivotOf(Self, selected_nodes, << >>, pivot_visible, data),
                  pivot_visible, data)

\* The state after should_refresh_pivot_position left self and returned as in after.
ShouldRefreshPivotPositionTo(after) ==
    /\ Store(after.self)
    /\ Record("should_refresh_pivot_position", VZero, after.ret, << >>)
    /\ UNCHANGED document_vars

ShouldRefreshPivotPosition ==
    ShouldRefreshPivotPositionTo(ShouldRefreshPivotPositionOf(Self))

ToPivotPositionCall ==
    /\ op' = "to_pivot_position"
    /\ ret_position' = ToPivotPosition(Self)
    /\ visibility' = TRUE
    /\ draw_data' = None
    /\ position' = VZero
    /\ ret' = FALSE
    /\ responses' = << >>
    /\ overlay_context' = << >>
    /\ UNCHANGED << document_vars, pivot_vars >>

SetViewportPosition(point) ==
    /\ Record("set_viewport_position", point, FALSE,
              SetViewportPositionOf(Self, point, selected_nodes, << >>))
    /\ UNCHANGED << document_vars, pivot_vars >>

SetNormalizedPosition(point) ==
    /\ Record("set_normalized_position", point, FALSE,
              SetNormalizedPositionOf(Self, point, selected_nodes, << >>))
    /\ UNCHANGED << document_vars, pivot_vars >>

IsOver(mouse) ==
    /\ Record("is_over", mouse, IsOverOf(Self, mouse), << >>)
    /\ UNCHANGED << document_vars, pivot_vars >>

\* selection without its i-th layer.
Deselect(selection, i) == SubSeq(selection, 1, i - 1) \o SubSeq(selection, i + 1, Len(selection))

\* The selections one user step away: one more layer selected, or one fewer.
SelectionSteps(selection) ==
    { Append(selection, l) : l \in LayerNodeIdentifier \ { selection[i] : i \in 1..Len(selection) } }
    \cup { Deselect(selection, i) : i \in 1..Len(selection) }

\* The document changes between two calls: a layer (with its own box,
\* transform, pivot, visibility and lock) joins or leaves the selection.
DocumentChange(selection) ==
    /\ selection \in SelectionSteps(selected_nodes)
    /\ selected_nodes' = selection
    /\ Record("document", VZero, FALSE, << >>)
    /\ UNCHANGED << pivots, pivot_vars >>

Next ==
    \/ \E pivot_visible \in BOOLEAN, data \in DrawData : UpdatePivot(pivot_visible, data)
    \/ ShouldRefreshPivotPosition
    \/ ToPivotPositionCall
    \/ \E point \in ViewportPositions : SetViewportPosition(point)
    \/ \E point \in NormalizedPositions : SetNormalizedPosition(point)
    \/ \E mouse \in MousePositions : IsOver(mouse)
    \/ \E selection \in Selections : DocumentChange(selection)

Spec == Init /\ [][Next]_vars

----------------------------------------------------------------------------
(* The queue is dispatched: the editor applies the commands a call queued *)

\* The document's handler of GraphOperationMessage::TransformSetPivot: the
\* layer's transform holds the pivot of the message.
SetPivot(document_pivots, message) ==
    [document_pivots EXCEPT ![message.layer] = Some(message.pivot)]

\* The messages of the queue handled front to back.
RECURSIVE DispatchAll(_, _)
DispatchAll(document_pivots, queue) ==
    IF queue = << >> THEN document_pivots
    ELSE DispatchAll(SetPivot(document_pivots, Head(queue)), Tail(queue))

\* The viewport position the last setter call computed its commands from.
ViewportTarget ==
    IF op = "set_normalized_position"
      THEN TransformPoint2(transform_from_normalized, position)
    ELSE position

\* The commands of the last setter call reach the document. The handler is not
\* called; position keeps the viewport position the commands were computed from.
Dispatch ==
    /\ responses # << >>
    /\ pivots' = DispatchAll(pivots, responses)
    /\ op' = "dispatch"
    /\ position' = ViewportTarget
    /\ responses' = << >>
    /\ visibility' = TRUE
    /\ draw_data' = None
    /\ ret' = FALSE
    /\ ret_position' = "None"
    /\ overlay_context' = << >>
    /\ UNCHANGED << selected_nodes, pivot_vars >>

\* An editing session on one selection: the pivot is moved with the pointer or
\* from the reference-point input, the commands are dispatched, the overlays
\* are updated.
InitDispatch ==
    /\ selected_nodes \in Selections
    /\ pivots = [l \in LayerNodeIdentifier |-> LayerTable[l].pivot]
    /\ normalized_pivot = Default.normalized_pivot
    /\ transform_from_normalized = Default.transform_from_normalized
    /\ pivot = Default.pivot
    /\ old_pivot_position = Default.old_pivot_position
    /\ active = Default.active
    /\ op = "default"
    /\ visibility = TRUE
    /\ draw_data = None
    /\ position = VZero
    /\ ret = FALSE
    /\ ret_position = "None"
    /\ responses = << >>
    /\ overlay_context = << >>

NextDispatch ==
    \/ \E pivot_visible \in BOOLEAN, data \in DrawData : UpdatePivot(pivot_visible, data)
    \/ \E point \in ViewportPositions : SetViewportPosition(point)
    \/ \E point \in NormalizedPositions : SetNormalizedPosition(point)
    \/ Dispatch

SpecDispatch == InitDispatch /\ [][NextDispatch]_vars

----------------------------------------------------------------------------
(* Properties *)

\* The visible, unlocked layers of the current selection.
Eligible == SelectedVisibleAndUnlockedLayers(selected_nodes)

EligibleSet == { Eligible[i] : i \in 1..Len(Eligible) }

\* The linear part of the layer's bounding-box-to-viewport transform has
\* |determinant| <= epsilon.
Singular(layer) == LeEpsilon(RAbs(Determinant(GetLayerPivotTransform(layer))))

UpdatedVisible == op = "update_pivot" /\ visibility

\* C1: set_viewport_position is all-or-nothing: with a singular layer among the
\* eligible ones, wherever it stands in the enumeration, the call appends no
\* command at all.
SetViewportPositionAllOrNothing ==
    (op = "set_viewport_position" /\ \E l \in EligibleSet : Singular(l))
        => responses = << >>

\* C2 as stated: in every reachable state the cached pivot is Some iff a
\* visible, unlocked layer is selected and active is true.
PivotSomeIffEligibleAndActive ==
    IsSome(pivot) <=> (Eligible # << >> /\ active)

\* C2 as amended: right after an update that read the visibility setting as
\* true, active is true and the cached pivot is Some iff a visible, unlocked
\* layer is selected.
PivotSomeIffEligibleAfterUpdate ==
    UpdatedVisible => (active /\ (IsSome(pivot) <=> Eligible # << >>))

PivotSomeAfterUpdateWitness ==
    UpdatedVisible /\ IsSome(pivot) /\ Len(Eligible) < Len(selected_nodes)

\* C3: inactivity is a total short-circuit. An update that reads the setting
\* as false clears active and keeps the other four fields; while inactive,
\* is_over and should_refresh_pivot_position return false, the two setters
\* queue nothing, and none of these calls changes a field of the handler.
InactiveOps ==
    { "is_over", "should_refresh_pivot_position",
      "set_viewport_position", "set_normalized_position" }

InactivityShortCircuit ==
    [][ /\ (op' = "update_pivot" /\ ~visibility')
            => /\ ~active'
               /\ normalized_pivot' = normalized_pivot
               /\ transform_from_normalized' = transform_from_normalized
               /\ pivot' = pivot
               /\ old_pivot_position' = old_pivot_position
        /\ (~active /\ op' \in InactiveOps)
            => /\ ~ret'
               /\ responses' = << >>
               /\ UNCHANGED pivot_vars ]_vars

\* While inactive, the pointer is within the handle of the cached pivot.
InactiveIsOverWitness ==
    /\ ~active
    /\ op = "is_over"
    /\ IsSome(pivot)
    /\ RLt(DistanceSquared(position, Unwrap(pivot)), R(PIVOT_DIAMETER * PIVOT_DIAMETER, 4))

\* C4 as stated: from an active state, should_refresh_pivot_position called
\* twice in a row returns true, then false.
RefreshTrueThenFalse ==
    [][ (active /\ op' = "should_refresh_pivot_position")
            => (ret' <=> op # "should_refresh_pivot_position") ]_vars

\* C4 as amended: from an active state, the first of two calls in a row
\* returns true exactly when the position of normalized_pivot differs from the
\* stored one, and the second returns false.
RefreshChangedThenFalse ==
    [][ (active /\ op' = "should_refresh_pivot_position")
            => /\ ret' <=> (ToReferencePoint(normalized_pivot) # old_pivot_position)
               /\ op = "should_refresh_pivot_position" => ~ret' ]_vars

RefreshTwiceWitness ==
    /\ active
    /\ op = "should_refresh_pivot_position"
    /\ ~ret
    /\ old_pivot_position # "Center"

\* C5: an update that reads the setting as true with no visible, unlocked
\* layer selected leaves normalized_pivot = (0.5, 0.5) and pivot = None,
\* whatever the fields held before.
EmptySelectionResets ==
    (UpdatedVisible /\ Eligible = << >>)
        => (normalized_pivot = V(R(1, 2), R(1, 2)) /\ pivot = None)

\* The transform of an earlier selection is still cached: the fields did not
\* hold their defaults before the update.
EmptySelectionResetsWitness ==
    /\ UpdatedVisible
    /\ Eligible = << >>
    /\ transform_from_normalized # IDENTITY
    /\ old_pivot_position # "Center"

\* C6: with the handler active and no eligible layer singular,
\* set_viewport_position queues exactly one command per eligible layer, each
\* with that layer's identifier and a pivot that the layer's own transform
\* maps back onto the position passed in; with no eligible layer, nothing.
OneCommandPerLayer ==
    (op = "set_viewport_position" /\ active /\ \A l \in EligibleSet : ~Singular(l))
        => /\ Len(responses) = Len(Eligible)
           /\ \A l \in EligibleSet :
                \E i \in 1..Len(responses) :
                    /\ responses[i].layer = l
                    /\ \A j \in 1..Len(responses) : responses[j].layer = l => j = i
                    /\ TransformPoint2(GetLayerPivotTransform(l), responses[i].pivot)
                           = position

\* Two layers with different transforms, both written to.
OneCommandPerLayerWitness ==
    /\ op = "set_viewport_position"
    /\ active
    /\ Len(Eligible) >= 2
    /\ \A l \in EligibleSet : ~Singular(l)
    /\ \E l, m \in EligibleSet : GetLayerPivotTransform(l) # GetLayerPivotTransform(m)
    /\ Len(responses) = Len(Eligible)

\* 4 * |mouse - p|^2 < PIVOT_DIAMETER^2
StrictlyWithinHandle(mouse, p) ==
    RLt(RMul(R(4, 1), DistanceSquared(mouse, p)), R(PIVOT_DIAMETER * PIVOT_DIAMETER, 1))

\* C7: is_over returns true iff active is true, pivot is Some(p) and the
\* squared distance from the pointer to p is strictly less than
\* (PIVOT_DIAMETER / 2)^2; the call changes no field of the handler.
IsOverStrictlyInside ==
    /\ [](op = "is_over" =>
            (ret <=> /\ active
                     /\ IsSome(pivot)
                     /\ StrictlyWithinHandle(position, Unwrap(pivot))))
    /\ [][op' = "is_over" => UNCHANGED pivot_vars]_vars

\* The pointer is at distance exactly PIVOT_DIAMETER / 2, and is not over.
IsOverBoundaryWitness ==
    /\ op = "is_over"
    /\ active
    /\ IsSome(pivot)
    /\ RMul(R(4, 1), DistanceSquared(position, Unwrap(pivot)))
           = R(PIVOT_DIAMETER * PIVOT_DIAMETER, 1)
    /\ ~ret

\* C8: an update draws at most one circle, and exactly one iff the setting
\* is true, a radius is passed and pivot is Some after the recalculation of
\* that update; the circle is at that pivot with that radius. No other
\* operation draws.
OneDrawPerUpdate ==
    /\ Len(overlay_context) <= 1
    /\ overlay_context # << >>
           <=> (op = "update_pivot" /\ visibility /\ IsSome(draw_data) /\ IsSome(pivot))
    /\ overlay_context # << >>
           => overlay_context[1] = [pivot |-> Unwrap(pivot), radius |-> Unwrap(draw_data)]

\* The circle is drawn at a pivot that the update itself moved or created.
OneDrawPerUpdateWitness ==
    /\ op = "update_pivot"
    /\ Len(overlay_context) = 1
    /\ Len(Eligible) > 1

RECURSIVE SumOfViewportPivots(_)
SumOfViewportPivots(layers) ==
    IF layers = {} THEN VZero
    ELSE LET l == CHOOSE x \in layers : TRUE
         IN VAdd(GetViewportPivot(l), SumOfViewportPivots(layers \ {l}))

\* C9: after an update that read the setting as true with n > 1 eligible
\* layers, pivot is Some(m) with n * m the sum of the layers' own viewport
\* pivot points, each layer counted once, whatever the enumeration order.
PivotIsMean ==
    (UpdatedVisible /\ Len(Eligible) > 1)
        => /\ IsSome(pivot)
           /\ LET n == R(Cardinality(EligibleSet), 1)
              IN V(RMul(n, Unwrap(pivot).x), RMul(n, Unwrap(pivot).y))
                     = SumOfViewportPivots(EligibleSet)

\* Layers whose own pivots differ, so that the mean is none of them.
PivotIsMeanWitness ==
    /\ UpdatedVisible
    /\ Len(Eligible) > 1
    /\ IsSome(pivot)
    /\ \A l \in EligibleSet : GetViewportPivot(l) # Unwrap(pivot)

\* Component-wise product of two vectors.
VMul(p, q) == V(RMul(p.x, q.x), RMul(p.y, q.y))

\* The point of the layer's bounding box at normalized coordinates p, in the viewport.
BoxPointInViewport(layer, p) ==
    LET min == NonzeroBoundingBox(layer)[1]
        max == NonzeroBoundingBox(layer)[2]
    IN TransformPoint2(TransformToViewport(layer), VAdd(min, VMul(VSub(max, min), p)))

\* C10: after an update that read the setting as true with exactly one
\* eligible layer L, normalized_pivot is L's custom pivot or else (0.5, 0.5),
\* transform_from_normalized maps normalized coordinates into L's box and
\* then through L's viewport transform, and pivot is Some of
\* transform_from_normalized applied to normalized_pivot. The box
\* (0,0)-(10,10) under the identity gives (5,5), or (2.5,7.5) with the custom
\* pivot (0.25,0.75).
SingleLayerPivot ==
    (UpdatedVisible /\ Len(Eligible) = 1)
        => LET L == Eligible[1]
               plain == /\ NonzeroBoundingBox(L) = << VI(0, 0), VI(10, 10) >>
                        /\ TransformToViewport(L) = IDENTITY
           IN /\ normalized_pivot =
                     (IF GetPivot(L) = None THEN V(R(1, 2), R(1, 2)) ELSE GetPivot(L)[1])
              /\ \A p \in { VI(0, 0), VI(1, 0), VI(0, 1) } :
                     TransformPoint2(transform_from_normalized, p) = BoxPointInViewport(L, p)
              /\ pivot = Some(TransformPoint2(transform_from_normalized, normalized_pivot))
              /\ (plain /\ GetPivot(L) = None) => pivot = Some(VI(5, 5))
              /\ (plain /\ GetPivot(L) = Some(V(R(1, 4), R(3, 4))))
                     => pivot = Some(V(R(5, 2), R(15, 2)))

\* One layer with a custom pivot, a box away from the origin and a viewport
\* transform that turns and scales.
SingleLayerPivotWitness ==
    /\ UpdatedVisible
    /\ Len(Eligible) = 1
    /\ GetPivot(Eligible[1]) # None
    /\ TransformToViewport(Eligible[1]) # IDENTITY
    /\ pivot = Some(VI(18, 2))

\* C11: active is a boolean that only update_pivot changes: a new handler is
\* active, after every update active equals the visibility setting the update
\* read, and no other call (should_refresh_pivot_position, to_pivot_position,
\* set_viewport_position, set_normalized_position, is_over) changes it.
ActiveSetOnlyByUpdate ==
    /\ [](/\ active \in BOOLEAN
          /\ (op = "default" => active)
          /\ (op = "update_pivot" => (active <=> visibility)))
    /\ [][op' # "update_pivot" => active' = active]_vars

\* A setter was called on the inactive handler, which stays inactive.
ActiveSetOnlyByUpdateWitness ==
    /\ ~active
    /\ op = "set_normalized_position"
    /\ Eligible # << >>

\* The two setters.
Setters == { "set_viewport_position", "set_normalized_position" }

\* C12: the setters only queue commands: they change no field of the handler
\* and nothing of the document. The cached pivot stays as it was until an
\* update: once the queued commands were dispatched, an update that reads the
\* setting as true, with eligible layers none of which is singular, leaves
\* pivot at the viewport position that was set.
OneCycleDelayed ==
    [][ /\ (op' \in Setters => UNCHANGED << pivot_vars, document_vars >>)
        /\ (pivot' # pivot => op' = "update_pivot")
        /\ ((/\ op = "dispatch"
             /\ op' = "update_pivot"
             /\ visibility'
             /\ Eligible # << >>
             /\ \A l \in EligibleSet : ~Singular(l))
                => pivot' = Some(position)) ]_vars

\* The commands were dispatched, every eligible layer has its pivot at the
\* position set, and the cached pivot is still the one of the last update.
OneCycleDelayedWitness ==
    /\ op = "dispatch"
    /\ active
    /\ Len(Eligible) > 1
    /\ \A l \in EligibleSet : GetViewportPivot(l) = position
    /\ IsSome(pivot)
    /\ Unwrap(pivot) # position

\* C13: on the active handler should_refresh_pivot_position returns true
\* exactly when the position of normalized_pivot differs from
\* old_pivot_position, and stores that position whether it differs or not; no
\* other call and no call on the inactive handler changes old_pivot_position,
\* so the comparison is with the position the last such call saw (Center if
\* there was none). to_pivot_position returns the position of normalized_pivot
\* and changes no field.
ChangeDetectionLatch ==
    /\ [](op = "default" => old_pivot_position = "Center")
    /\ [][ /\ ((active /\ op' = "should_refresh_pivot_position")
                 => /\ ret' <=> (ToReferencePoint(normalized_pivot) # old_pivot_position)
                    /\ old_pivot_position' = ToReferencePoint(normalized_pivot)
                    /\ UNCHANGED << normalized_pivot, transform_from_normalized, pivot, active >>)
            /\ (old_pivot_position' # old_pivot_position
                 => (active /\ op' = "should_refresh_pivot_position"))
            /\ (op' = "to_pivot_position"
                 => /\ ret_position' = ToReferencePoint(normalized_pivot)
                    /\ UNCHANGED pivot_vars) ]_vars

\* The call returned true for a position other than the one first stored.
ChangeDetectionLatchWitness ==
    /\ op = "should_refresh_pivot_position"
    /\ active
    /\ ret
    /\ old_pivot_position = "TopLeft"

PivotFunctionOfDocument ==
    UpdatedVisible
        => /\ pivot = RecalculatePivot(Default, selected_nodes).pivot
           /\ normalized_pivot = RecalculatePivot(Default, selected_nodes).normalized_pivot

\* The handler was not in its default state before the update: it holds a
\* position stored under another normalized pivot.
PivotFunctionOfDocumentWitness ==
    /\ UpdatedVisible
    /\ Eligible # << >>
    /\ old_pivot_position \notin { "Center", ToReferencePoint(normalized_pivot) }

\* The viewport box of the eligible layers has a width and a height.
SelectionBoxNonzero ==
    LET box == UnwrapOr(SelectedVisibleAndUnlockLayersBoundingBoxViewport(selected_nodes),
                        << VZero, VOne >>)
    IN box[1].x # box[2].x /\ box[1].y # box[2].y

\* C16: after an update that read the setting as true and left pivot =
\* Some(p), with one eligible layer, or several whose viewport box has a
\* width and a height, transform_from_normalized maps normalized_pivot onto p.
CachedTransformMapsToPivot ==
    (/\ UpdatedVisible
     /\ IsSome(pivot)
     /\ (Len(Eligible) = 1 \/ SelectionBoxNonzero))
        => TransformPoint2(transform_from_normalized, normalized_pivot) = Unwrap(pivot)

\* Several layers, the mean of their pivots away from the centre of their box.
CachedTransformMapsToPivotWitness ==
    /\ UpdatedVisible
    /\ Len(Eligible) > 1
    /\ IsSome(pivot)
    /\ SelectionBoxNonzero
    /\ normalized_pivot.x # Half
    /\ normalized_pivot.y # Half

====
